---------------------------- MODULE Spec2Model ----------------------------
(***************************************************************************)
(* Model of src/cache.cpp: the set-associative Cache level (pseudo-LRU     *)
(* counters, victim queue, next-line prefetch, write-back) and the         *)
(* two-level MultiLevelCache built from it.                                *)
(*                                                                         *)
(* One step of the model is one execution of the body of                   *)
(* Cache::accessCache up to the point where it either returns or calls     *)
(* itself again through prefetchNextLine.  The frames of the recursion     *)
(* that are waiting for the nested call do nothing but return a constant   *)
(* once it comes back, so the only thing remembered about them is the      *)
(* result of the outermost one (top).                                      *)
(*                                                                         *)
(* Addresses are AddrBits wide instead of 32 bits; the CacheBlock::tag     *)
(* bit-field keeps the source's proportion (30 of 32 bits, that is         *)
(* AddrBits - 2).  All address arithmetic is done modulo 2^AddrBits.       *)
(***************************************************************************)
EXTENDS Integers, Sequences, FiniteSets, TLC

VARIABLES cfg, mode, sets, pseudoLRU, victimCache, vcMeta,
          pc, req, pf, top, results, script, ev, hist, slot, origin, seen

vars == <<cfg, mode, sets, pseudoLRU, victimCache, vcMeta,
          pc, req, pf, top, results, script, ev, hist, slot, origin, seen>>

(* cfg         the constructor arguments of each Cache object (1 or 2)      *)
(* sets, pseudoLRU, victimCache   the members of each Cache object          *)
(* pc, req, pf, top   where the running call is: the statement of the       *)
(*             caller, the user's request, the address of the pending       *)
(*             nested accessCache call (-1: none), the result of the        *)
(*             outermost activation                                         *)
(* results     the calls that have returned, with their results             *)
(* script      the calls the scenario driver has still to make              *)
(* History, read by the properties only:                                    *)
(* vcMeta      per victim entry, the set it came from, the full tag of the  *)
(*             address it was filled for, and its insertion rank            *)
(* ev          what the latest activation of accessCache did                *)
(* hist        per set, the tags of the first accesses made to it           *)
(* origin      per slot, the full tag of the address whose access filled it *)
(* slot        the set and way used by the latest outermost activation, and *)
(*             whether a nested activation has put another line there since *)
(* seen        per level, the blocks (set index and tag of the address) an  *)
(*             accessCache activation has been made for                     *)

---------------------------------------------------------------------------
(* Bounds of the model *)

\* width of an address in bits (uint32_t in the source)
AddrBits == 10

\* number of accessCache / accessMemory calls the free driver issues
MaxCalls == 3

---------------------------------------------------------------------------
(* Arithmetic helpers *)

Pow2(n) == 2 ^ n

AddrSpace == Pow2(AddrBits)

\* width of the bit-field CacheBlock::tag: 30 of the 32 address bits
TagBits == AddrBits - 2

Min(a, b) == IF a < b THEN a ELSE b

\* __builtin_ctz: number of trailing zero bits of n > 0
RECURSIVE Ctz(_)
Ctz(n) == IF n % 2 = 1 THEN 0 ELSE 1 + Ctz(n \div 2)

\* saturation value of a pseudo-LRU counter: min(255, ...)
CounterMax == 255

---------------------------------------------------------------------------
(* Construction: Cache::Cache(size, block, assoc, victimSize) *)

CacheCfg(size, block, assoc, victimSize) ==
    [cacheSize |-> size, blockSize |-> block, ways |-> assoc,
     victimCacheSize |-> victimSize]

NumSets(c) == (c.cacheSize \div c.blockSize) \div c.ways

\* (1 << __builtin_ctz(numSets)) - 1
SetMask(c) == Pow2(Ctz(NumSets(c))) - 1

\* number of low address bits cleared by tagMask
\* tagMask = ~((1 << (ctz(numSets) + ctz(block))) - 1)
TagShift(c) == Ctz(NumSets(c)) + Ctz(c.blockSize)

\* (address >> __builtin_ctz(blockSize)) & setMask
IndexOf(c, address) == (address \div Pow2(Ctz(c.blockSize))) % (SetMask(c) + 1)

\* address & tagMask
TagOf(c, address) == address - (address % Pow2(TagShift(c)))

\* what the 30-bit field CacheBlock::tag keeps of an assigned value
StoreTag(t) == t % Pow2(TagBits)

Ways(c) == 0 .. (c.ways - 1)

SetIdx(c) == 0 .. (NumSets(c) - 1)

\* a value-initialised CacheBlock with valid = dirty = false
EmptyBlock == [valid |-> FALSE, dirty |-> FALSE, tag |-> 0]

InitSets(c) == [s \in SetIdx(c) |-> [w \in Ways(c) |-> EmptyBlock]]

InitLRU(c) == [s \in SetIdx(c) |-> [w \in Ways(c) |-> 0]]

---------------------------------------------------------------------------
(* Replacement policy *)

\* Variant of getPseudoLRU that selects the way with the largest counter (the
\* first of them), that is the way unused for the longest time.
GetPseudoLRUOldest(c, ctrs) ==
    CHOOSE w \in Ways(c) :
        /\ \A v \in Ways(c) : ctrs[v] <= ctrs[w]
        /\ \A v \in Ways(c) : v < w => ctrs[v] < ctrs[w]

\* find(begin, end, 0) - begin: the first way whose counter is 0, or `ways`
\* (one past the end) when no counter is 0
GetPseudoLRU(c, ctrs) ==
    IF \E w \in Ways(c) : ctrs[w] = 0
    THEN CHOOSE w \in Ways(c) : ctrs[w] = 0 /\ \A v \in Ways(c) : v < w => ctrs[v] # 0
    ELSE c.ways

\* Variant of updatePseudoLRU with the two branches exchanged: the used way
\* ages and every other way is reset.
UpdatePseudoLRUExchanged(c, ctrs, usedWay) ==
    [i \in Ways(c) |-> IF i = usedWay THEN Min(CounterMax, ctrs[i] + 1) ELSE 0]

\* updatePseudoLRU(setIndex, usedWay)
UpdatePseudoLRU(c, ctrs, usedWay) ==
    [i \in Ways(c) |-> IF i # usedWay THEN Min(CounterMax, ctrs[i] + 1) ELSE 0]

\* the first way holding a valid line with this tag, way 0 when there is none
PredictWay(c, set, tag) ==
    IF \E w \in Ways(c) : set[w].valid /\ set[w].tag = tag
    THEN CHOOSE w \in Ways(c) :
            /\ set[w].valid /\ set[w].tag = tag
            /\ \A v \in Ways(c) : v < w => ~(set[v].valid /\ set[v].tag = tag)
    ELSE 0

\* the residency test of prefetchNextLine
IsCached(c, set, tag) == \E w \in Ways(c) : set[w].valid /\ set[w].tag = tag

---------------------------------------------------------------------------
(* Victim queue.  victimCache is the queue of blocks, front first; vcMeta  *)
(* is a history sequence kept in step with it: for each entry the set it   *)
(* was evicted from, the full tag of the address it was filled for, and    *)
(* its rank of insertion among the entries now in the queue (1 = inserted  *)
(* earliest).                                                              *)

\* The scan loop of checkVictimCache: i iterations done, n = size at entry.
\* Every iteration pops the front and pushes it at the back; the loop ends
\* early, right after that push, when the popped block carries the tag.
\* Result: was it found, and by how many places the queue has been rotated.
\* Variant of the scan loop that makes one iteration less than the queue has
\* entries.
RECURSIVE VictimScanShort(_, _, _, _)
VictimScanShort(q, tag, i, n) ==
    IF i >= n - 1 THEN [found |-> FALSE, rot |-> i]
    ELSE IF Head(q).tag = tag THEN [found |-> TRUE, rot |-> i + 1]
         ELSE VictimScanShort(Append(Tail(q), Head(q)), tag, i + 1, n)

RECURSIVE VictimScan(_, _, _, _)
VictimScan(q, tag, i, n) ==
    IF i >= n THEN [found |-> FALSE, rot |-> i]
    ELSE IF Head(q).tag = tag THEN [found |-> TRUE, rot |-> i + 1]
         ELSE VictimScan(Append(Tail(q), Head(q)), tag, i + 1, n)

CheckVictimCache(q, tag) == VictimScan(q, tag, 0, Len(q))

\* a queue after k pop-front/push-back rounds
RECURSIVE Rotate(_, _)
Rotate(q, k) == IF k = 0 \/ q = <<>> THEN q ELSE Rotate(Append(Tail(q), Head(q)), k - 1)

\* history ranks after the front entry left the queue
DropFrontMeta(m) ==
    LET r == Head(m).rank
    IN  [i \in 1 .. (Len(m) - 1) |->
            [m[i + 1] EXCEPT !.rank = IF @ > r THEN @ - 1 ELSE @]]

\* Variant of the test with > in place of >=.
VictimFullOffByOne(c, q) == Len(q) > c.victimCacheSize

\* the test of addToVictimCache: victimCache.size() >= victimCacheSize
VictimFull(c, q) == Len(q) >= c.victimCacheSize

\* addToVictimCache: pop the front when the queue is full, then push
AddToVictimCache(c, q, block) ==
    Append(IF VictimFull(c, q) THEN Tail(q) ELSE q, block)

\* the history of the queue under addToVictimCache
AddToVictimMeta(c, q, m, from, full) ==
    LET kept == IF VictimFull(c, q) THEN DropFrontMeta(m) ELSE m
    IN  Append(kept, [from |-> from, full |-> full, rank |-> Len(kept) + 1])

---------------------------------------------------------------------------
(* Cache::accessCache, one activation.  S, L, Q are the sets, the          *)
(* pseudo-LRU counters and the victim queue of the level, M and O the      *)
(* histories of the queue and of the slots.  The result holds the new      *)
(* values, what happened (kind, the way used, the block that was in that   *)
(* way, the write-backs done, the rank of the entry addToVictimCache       *)
(* discarded) and in `next` the address prefetchNextLine passes to the     *)
(* nested accessCache call, or -1 when this activation returns without     *)
(* making one.                                                             *)

\* prefetchNextLine(address), evaluated on the sets as the activation left them
PrefetchNextLine(c, S, address) ==
    LET nextAddress == (address + c.blockSize) % AddrSpace
        index       == IndexOf(c, nextAddress)
        tag         == TagOf(c, nextAddress)
    IN  IF IsCached(c, S[index], tag) THEN -1 ELSE nextAddress

\* lines 52-59: the predicted way holds the line
HitPath(c, S, L, Q, M, O, address, isWrite, index, way) ==
    LET S1 == [S EXCEPT ![index][way].dirty = IF isWrite THEN TRUE ELSE @]
    IN  [sets |-> S1,
         lru  |-> [L EXCEPT ![index] = UpdatePseudoLRU(c, @, way)],
         vc   |-> Q, meta |-> M,
         kind |-> "hit", idx |-> index, way |-> way, old |-> S[index][way],
         wb   |-> 0, disc |-> 0, org |-> O[index][way],
         next |-> PrefetchNextLine(c, S1, address)]

\* insertBlockToCache(index, block, isWrite)
InsertBlockToCache(c, S, L, index, block, isWrite) ==
    LET replaceWay == GetPseudoLRU(c, L[index])
    IN  [sets |-> [S EXCEPT ![index][replaceWay] = [block EXCEPT !.dirty = isWrite]],
         lru  |-> [L EXCEPT ![index] = UpdatePseudoLRU(c, @, replaceWay)],
         way  |-> replaceWay]

\* lines 62-66: checkVictimCache found the tag; the queue has been rotated by
\* rot places, its front goes into the set and is popped
VictimPath(c, S, L, Q, M, isWrite, index, rot) ==
    LET Q1  == Rotate(Q, rot)
        M1  == Rotate(M, rot)
        ins == InsertBlockToCache(c, S, L, index, Head(Q1), isWrite)
    IN  [sets |-> ins.sets, lru |-> ins.lru,
         vc   |-> Tail(Q1), meta |-> DropFrontMeta(M1),
         kind |-> "vhit", idx |-> index, way |-> ins.way, old |-> S[index][ins.way],
         wb   |-> 0, disc |-> 0, org |-> Head(M1).full,
         next |-> -1]

\* Variant of writeBack that leaves the dirty flag set.
WriteBackKeepDirty(block) == block

\* writeBack(block): the block is marked clean
WriteBack(block) == [block EXCEPT !.dirty = FALSE]

\* Variant of the miss sequence whose fill writes tag and dirty and leaves
\* the valid flag of the slot as it was.
MissPathKeepValid(c, S, L, Q, M, O, address, isWrite, index, tag) ==
    LET replaceWay == GetPseudoLRU(c, L[index])
        old        == S[index][replaceWay]
        doWB       == old.valid /\ old.dirty
        afterWB    == IF doWB THEN WriteBack(old) ELSE old
        Q1         == IF afterWB.valid THEN AddToVictimCache(c, Q, afterWB) ELSE Q
        M1         == IF afterWB.valid THEN AddToVictimMeta(c, Q, M, index, O[index][replaceWay]) ELSE M
        S1         == [S EXCEPT ![index][replaceWay] =
                          [valid |-> old.valid, dirty |-> isWrite, tag |-> StoreTag(tag)]]
    IN  [sets |-> S1,
         lru  |-> [L EXCEPT ![index] = UpdatePseudoLRU(c, @, replaceWay)],
         vc   |-> Q1, meta |-> M1,
         kind |-> "miss", idx |-> index, way |-> replaceWay, old |-> old,
         wb   |-> IF doWB THEN 1 ELSE 0, org |-> tag,
         disc |-> IF afterWB.valid /\ VictimFull(c, Q)
                  THEN Head(M).rank ELSE 0,
         next |-> PrefetchNextLine(c, S1, address)]

\* lines 68-89: the miss sequence, on the queue as checkVictimCache left it
MissPath(c, S, L, Q, M, O, address, isWrite, index, tag) ==
    LET replaceWay == GetPseudoLRU(c, L[index])
        old        == S[index][replaceWay]
        doWB       == old.valid /\ old.dirty
        afterWB    == IF doWB THEN WriteBack(old) ELSE old
        Q1         == IF afterWB.valid THEN AddToVictimCache(c, Q, afterWB) ELSE Q
        M1         == IF afterWB.valid THEN AddToVictimMeta(c, Q, M, index, O[index][replaceWay]) ELSE M
        S1         == [S EXCEPT ![index][replaceWay] =
                          [valid |-> TRUE, dirty |-> isWrite, tag |-> StoreTag(tag)]]
    IN  [sets |-> S1,
         lru  |-> [L EXCEPT ![index] = UpdatePseudoLRU(c, @, replaceWay)],
         vc   |-> Q1, meta |-> M1,
         kind |-> "miss", idx |-> index, way |-> replaceWay, old |-> old,
         wb   |-> IF doWB THEN 1 ELSE 0, org |-> tag,
         disc |-> IF afterWB.valid /\ VictimFull(c, Q)
                  THEN Head(M).rank ELSE 0,
         next |-> PrefetchNextLine(c, S1, address)]

AccessBody(c, S, L, Q, M, O, address, isWrite) ==
    LET index        == IndexOf(c, address)
        tag          == TagOf(c, address)
        predictedWay == PredictWay(c, S[index], tag)
        look         == CheckVictimCache(Q, tag)
    IN  IF S[index][predictedWay].valid /\ S[index][predictedWay].tag = tag
        THEN HitPath(c, S, L, Q, M, O, address, isWrite, index, predictedWay)
        ELSE IF look.found
             THEN VictimPath(c, S, L, Q, M, isWrite, index, look.rot)
             ELSE MissPath(c, S, L, Rotate(Q, look.rot), Rotate(M, look.rot), O,
                           address, isWrite, index, tag)

---------------------------------------------------------------------------
(* Geometries and drivers.                                                 *)
(*   mode "cache"    : one Cache object, accessCache called by its user    *)
(*   mode "scenario" : one Cache object driven by a fixed list of calls    *)
(*   mode "hier"     : a MultiLevelCache, accessMemory called by its user  *)

\* Geometries of a single level: (size, block, assoc, victimSize).  The
\* constructor takes whatever it is given: the last geometry has 3 sets.
CacheConfigs ==
    { CacheCfg(256, 64, 2, 2),
      CacheCfg(256, 64, 2, 3),
      CacheCfg(256, 64, 2, 5),
      CacheCfg(128, 16, 2, 2),
      CacheCfg(256, 32, 4, 2),
      CacheCfg(384, 64, 2, 2) }

\* 4 sets, 2 ways, block size 16, victim capacity 2
ScenarioCfg == CacheCfg(128, 16, 2, 2)

\* read 0, read 16, read 0, write 0, read 0
ScenarioCalls ==
    << [addr |-> 0,  isWrite |-> FALSE], [addr |-> 16, isWrite |-> FALSE],
       [addr |-> 0,  isWrite |-> FALSE], [addr |-> 0,  isWrite |-> TRUE],
       [addr |-> 0,  isWrite |-> FALSE] >>

\* MultiLevelCache(): l1Cache(size, 64, 8, 8), l2Cache(8 * size, 64, 8, 16),
\* with the sizes brought down to the model's address width
HierConfigs ==
    { << CacheCfg(256, 64, 2, 2), CacheCfg(512, 64, 2, 4) >>,
      << CacheCfg(128, 16, 2, 2), CacheCfg(256, 16, 2, 4) >> }

Levels == 1 .. Len(cfg)

\* The addresses the user of a Cache passes: the first block, its neighbour,
\* the next block of set 0, the first address whose tag does not fit the tag
\* field, the last blocks of the address space (the first of the last round
\* over the sets, and the very last), and an address inside a block.
UserAddrs(c) ==
    { 0, c.blockSize, NumSets(c) * c.blockSize, Pow2(TagBits),
      AddrSpace - NumSets(c) * c.blockSize, AddrSpace - c.blockSize, 100 }

\* the addresses main() passes to accessMemory
MainAddrs == { 100, 120, 200 }

\* The addresses the user of a MultiLevelCache passes: those of main(), the
\* first block and the last block of the address space.
MemoryAddrs == MainAddrs \cup { 0, AddrSpace - cfg[1].blockSize }

NoEvent ==
    [lvl |-> 0, addr |-> 0, isWrite |-> FALSE, user |-> FALSE, kind |-> "none",
     idx |-> 0, way |-> 0, old |-> EmptyBlock, wb |-> 0, disc |-> 0]

Init ==
    /\ mode \in {"cache", "scenario", "hier"}
    /\ cfg \in CASE mode = "cache"    -> { <<c>> : c \in CacheConfigs }
               [] mode = "scenario" -> { <<ScenarioCfg>> }
               [] mode = "hier"     -> HierConfigs
    /\ sets        = [l \in Levels |-> InitSets(cfg[l])]
    /\ pseudoLRU   = [l \in Levels |-> InitLRU(cfg[l])]
    /\ victimCache = [l \in Levels |-> <<>>]
    /\ vcMeta      = [l \in Levels |-> <<>>]
    /\ pc = "idle"
    /\ req = [addr |-> 0, isWrite |-> FALSE]
    /\ pf = -1
    /\ top = FALSE
    /\ results = <<>>
    /\ script = IF mode = "scenario" THEN ScenarioCalls ELSE <<>>
    /\ ev = NoEvent
    /\ hist = [l \in Levels |-> [s \in SetIdx(cfg[l]) |-> <<>>]]
    /\ origin = [l \in Levels |-> [s \in SetIdx(cfg[l]) |-> [w \in Ways(cfg[l]) |-> -1]]]
    /\ slot = [lvl |-> 0, idx |-> 0, way |-> 0, reused |-> FALSE]
    /\ seen = [l \in Levels |-> {}]

\* one activation of accessCache on level l
Activation(l, address, isWrite) ==
    AccessBody(cfg[l], sets[l], pseudoLRU[l], victimCache[l], vcMeta[l], origin[l],
               address, isWrite)

\* the level's state and the record of the activation
Apply(l, address, isWrite, user, r) ==
    /\ sets'        = [sets        EXCEPT ![l] = r.sets]
    /\ pseudoLRU'   = [pseudoLRU   EXCEPT ![l] = r.lru]
    /\ victimCache' = [victimCache EXCEPT ![l] = r.vc]
    /\ vcMeta'      = [vcMeta      EXCEPT ![l] = r.meta]
    /\ ev' = [lvl |-> l, addr |-> address, isWrite |-> isWrite, user |-> user,
              kind |-> r.kind, idx |-> r.idx, way |-> r.way, old |-> r.old,
              wb |-> r.wb, disc |-> r.disc]
    /\ origin' = [origin EXCEPT ![l][r.idx][r.way] = r.org]
    /\ seen' = [seen EXCEPT ![l] = @ \cup {<<IndexOf(cfg[l], address), TagOf(cfg[l], address)>>}]
    /\ hist' = [hist EXCEPT ![l][r.idx] =
                   IF Len(@) <= cfg[l].ways THEN Append(@, TagOf(cfg[l], address)) ELSE @]
    /\ slot' = IF user
               THEN [lvl |-> l, idx |-> r.idx, way |-> r.way, reused |-> FALSE]
               ELSE [slot EXCEPT !.reused =
                        @ \/ (/\ r.kind \in {"miss", "vhit"}
                              /\ l = slot.lvl /\ r.idx = slot.idx /\ r.way = slot.way)]

\* the record of a call that has returned: its arguments, its result, and the
\* accessCache call of the caller that was the last to run
Returned(rq, hit, phase) ==
    Append(results, [addr |-> rq.addr, isWrite |-> rq.isWrite, hit |-> hit, via |-> phase])

\* Where control goes after an activation of the accessCache call `phase`
\* whose outermost activation gave `hit`: into the nested call of
\* prefetchNextLine, or back to the caller (the user, or accessMemory lines
\* 187-199).
Control(phase, rq, hit, next) ==
    /\ top' = hit
    /\ pf' = next
    /\ IF next # -1
       THEN pc' = phase /\ results' = results
       ELSE CASE phase = "L1" /\ (mode # "hier" \/ hit) ->
                     pc' = "idle" /\ results' = Returned(rq, hit, phase)
              [] phase = "L1" /\ mode = "hier" /\ ~hit ->
                     pc' = "callL2" /\ results' = results
              [] phase = "L2" /\ hit ->
                     pc' = "callL1" /\ results' = results
              [] phase = "L2" /\ ~hit ->
                     pc' = "idle" /\ results' = Returned(rq, FALSE, phase)
              [] phase = "L1fill" ->
                     pc' = "idle" /\ results' = Returned(rq, TRUE, phase)

\* Variant in which the nested calls of the first L1 access of accessMemory
\* run on the L2 object.
PhaseLevelShared(phase) == IF phase = "L2" \/ (mode = "hier" /\ phase = "L1") THEN 2 ELSE 1

\* the Cache object whose accessCache is running in the call `phase`
PhaseLevel(phase) == IF phase = "L2" THEN 2 ELSE 1

\* the user calls accessCache(address, isWrite)
AccessCache(address, isWrite) ==
    /\ mode = "cache" /\ pc = "idle" /\ Len(results) < MaxCalls
    /\ \E r \in {Activation(1, address, isWrite)} :
           /\ Apply(1, address, isWrite, TRUE, r)
           /\ Control("L1", [addr |-> address, isWrite |-> isWrite], r.kind # "miss", r.next)
    /\ req' = [addr |-> address, isWrite |-> isWrite]
    /\ UNCHANGED <<cfg, mode, script>>

\* the next call of the fixed list
ScenarioAccess ==
    /\ mode = "scenario" /\ pc = "idle" /\ script # <<>>
    /\ \E rq \in {Head(script)} : \E r \in {Activation(1, rq.addr, rq.isWrite)} :
           /\ Apply(1, rq.addr, rq.isWrite, TRUE, r)
           /\ Control("L1", rq, r.kind # "miss", r.next)
           /\ req' = rq
    /\ script' = Tail(script)
    /\ UNCHANGED <<cfg, mode>>

\* the nested accessCache(nextAddress) of prefetchNextLine
Prefetch ==
    /\ pc \in {"L1", "L2", "L1fill"} /\ pf # -1
    /\ \E l \in {PhaseLevel(pc)} : \E r \in {Activation(l, pf, FALSE)} :
           /\ Apply(l, pf, FALSE, FALSE, r)
           /\ Control(pc, req, top, r.next)
    /\ UNCHANGED <<cfg, mode, req, script>>

\* the user calls accessMemory(address, isWrite): l1Cache.accessCache, line 187
AccessMemory(address, isWrite) ==
    /\ mode = "hier" /\ pc = "idle" /\ Len(results) < MaxCalls
    /\ \E r \in {Activation(1, address, isWrite)} :
           /\ Apply(1, address, isWrite, TRUE, r)
           /\ Control("L1", [addr |-> address, isWrite |-> isWrite], r.kind # "miss", r.next)
    /\ req' = [addr |-> address, isWrite |-> isWrite]
    /\ UNCHANGED <<cfg, mode, script>>

\* l2Cache.accessCache(address, isWrite), line 192
L2Access ==
    /\ pc = "callL2"
    /\ \E r \in {Activation(2, req.addr, req.isWrite)} :
           /\ Apply(2, req.addr, req.isWrite, TRUE, r)
           /\ Control("L2", req, r.kind # "miss", r.next)
    /\ UNCHANGED <<cfg, mode, req, script>>

\* l1Cache.accessCache(address, isWrite) after the L2 hit, line 194
L1Fill ==
    /\ pc = "callL1"
    /\ \E r \in {Activation(1, req.addr, req.isWrite)} :
           /\ Apply(1, req.addr, req.isWrite, TRUE, r)
           /\ Control("L1fill", req, TRUE, r.next)
    /\ UNCHANGED <<cfg, mode, req, script>>

Next ==
    \/ \E a \in UserAddrs(cfg[1]), w \in BOOLEAN : AccessCache(a, w)
    \/ ScenarioAccess
    \/ Prefetch
    \/ \E a \in MemoryAddrs, w \in BOOLEAN : AccessMemory(a, w)
    \/ L2Access
    \/ L1Fill

Spec == Init /\ [][Next]_vars

\* A call that has been made keeps running: the program is one thread that
\* executes the next statement, and so is the scenario driver.  The users of
\* accessCache and accessMemory are free to stop calling.
\* The objects the progress properties are stated for: the cache of the
\* scenario, alone or under its driver, and the hierarchies.
FairInit == Init /\ (mode = "cache" => cfg = <<ScenarioCfg>>)

FairSpec ==
    /\ FairInit /\ [][Next]_vars
    /\ WF_vars(Prefetch) /\ WF_vars(L2Access) /\ WF_vars(L1Fill) /\ WF_vars(ScenarioAccess)

---------------------------------------------------------------------------
(* Properties *)

\* the line of `address` is in its set on level l
Resident(l, address) ==
    IsCached(cfg[l], sets[l][IndexOf(cfg[l], address)], TagOf(cfg[l], address))

\* C1: every accessCache call terminates: the chain accessCache ->
\* prefetchNextLine -> accessCache that a call starts is finite, so a call
\* that is running has returned at some later point.
Termination == [](pc # "idle" => <>(pc = "idle"))

\* C2: hit stability: when accessCache(A) is called right after a call of
\* accessCache(A) has returned, and the slot the first call used for A has not
\* been given to another line in between, the second call returns hit.
HitStability ==
    [][(/\ mode = "cache" /\ pc = "idle" /\ results # <<>>
        /\ ev'.addr = results[Len(results)].addr
        /\ ~slot.reused)
       => ev'.kind # "miss"]_vars

\* C3: tag uniqueness: on every level, in every set, no two valid ways carry
\* the same tag.
TagUniqueness ==
    \A l \in Levels : \A s \in SetIdx(cfg[l]) : \A v, w \in Ways(cfg[l]) :
        (v # w /\ sets[l][s][v].valid /\ sets[l][s][w].valid)
            => sets[l][s][v].tag # sets[l][s][w].tag

\* C3 witness: a prefetch access found its tag in the victim queue and
\* insertBlockToCache put a line over a valid line of the set.
TagUniquenessWitness ==
    /\ ev.kind = "vhit" /\ ~ev.user /\ ev.old.valid
    /\ sets[ev.lvl][ev.idx][ev.way].valid

\* C4: pseudo-LRU progress: once a set, empty at the start, has been accessed
\* exactly `ways` times, each time with another tag, every way of the set
\* holds a valid line and exactly one way has counter 0.
PseudoLruProgress ==
    \A l \in Levels : \A s \in SetIdx(cfg[l]) :
        LET h == hist[l][s]
        IN  (/\ Len(h) = cfg[l].ways
             /\ \A i, j \in 1 .. Len(h) : i # j => h[i] # h[j])
            => /\ \A w \in Ways(cfg[l]) : sets[l][s][w].valid
               /\ Cardinality({w \in Ways(cfg[l]) : pseudoLRU[l][s][w] = 0}) = 1

\* the victim entries with their histories: the tag each carries, the set it
\* was evicted from and the full tag of the address it was filled for
VictimEntries(Q, M) ==
    [i \in 1 .. Len(Q) |-> [tag |-> Q[i].tag, from |-> M[i].from, full |-> M[i].full]]

Occurrences(q, e) == Cardinality({i \in 1 .. Len(q) : q[i] = e})

\* C5: victim round-trip: when the line of A (clean, evicted from A's set) is
\* in the victim queue, at any position and among any other entries, and A is
\* accessed, the access is a victim hit, the line put into A's set carries A's
\* tag, and afterwards the queue holds one entry of A less and every other
\* entry as before.  Stated for the addresses whose tag the tag field holds
\* in full, the ones for which the queue lookup can match.
VictimRoundTrip ==
    [][\A l \in Levels :
        LET c   == cfg[l]
            a   == ev'.addr
            e   == [tag |-> TagOf(c, a), from |-> IndexOf(c, a), full |-> TagOf(c, a)]
            old == VictimEntries(victimCache[l], vcMeta[l])
            new == VictimEntries(victimCache'[l], vcMeta'[l])
        IN  (/\ ev'.lvl = l
             /\ StoreTag(TagOf(c, a)) = TagOf(c, a)
             /\ Occurrences(old, e) > 0
             /\ ~Resident(l, a))
            => /\ ev'.kind = "vhit"
               /\ sets'[l][ev'.idx][ev'.way].valid
               /\ sets'[l][ev'.idx][ev'.way].tag = TagOf(c, a)
               /\ Occurrences(new, e) = Occurrences(old, e) - 1
               /\ \A i \in 1 .. Len(old) :
                     old[i] # e => Occurrences(new, old[i]) = Occurrences(old, old[i])
               /\ Len(new) = Len(old) - 1]_vars

\* C6: write-back emission: whenever a valid dirty line leaves its slot (the
\* way a miss selected, or the way insertBlockToCache overwrote), exactly one
\* write-back of it was done first.
WriteBackEmission ==
    (ev.kind \in {"miss", "vhit"} /\ ev.old.valid /\ ev.old.dirty) => ev.wb = 1

\* C7: capacity bound: the victim queue of a level never holds more than
\* victimCacheSize entries.
CapacityBound ==
    \A l \in Levels : Len(victimCache[l]) <= cfg[l].victimCacheSize

\* C7 witness: addToVictimCache was called on a full queue, discarded an
\* entry, and the queue is full again.
CapacityBoundWitness ==
    /\ ev.kind = "miss" /\ ev.disc >= 1
    /\ Len(victimCache[ev.lvl]) = cfg[ev.lvl].victimCacheSize

\* C8: pure FIFO: the entry addToVictimCache discards from a full queue is the
\* one inserted earliest among those in the queue, and the entries of the
\* queue always stand in the order of their insertion.
PureFifo ==
    /\ ev.disc \in {0, 1}
    /\ \A l \in Levels : \A i, j \in 1 .. Len(vcMeta[l]) :
          i < j => vcMeta[l][i].rank < vcMeta[l][j].rank

\* C9: hierarchy promotion: from empty L1 and L2, the first accessMemory(X)
\* returns miss, and a second accessMemory(X) right after it returns hit from
\* L1, with L2 not accessed.
HierarchyPromotion ==
    /\ [](mode = "hier" /\ pc # "idle" /\ results = <<>>
            => <>(Len(results) >= 1 /\ ~results[1].hit))
    /\ [](mode = "hier" /\ Len(results) >= 2 /\ results[2].addr = results[1].addr
            => results[2].hit /\ results[2].via = "L1")

\* C10: end-to-end scenario: on a fresh level with 4 sets, 2 ways, block size
\* 16 and victim capacity 2, read 0, read 16, read 0, write 0, read 0 return
\* miss, miss, hit, hit, hit, and the line of address 0 is dirty at the end.
EndToEndScenario ==
    mode = "scenario"
        => <>(/\ pc = "idle" /\ Len(results) = 5
              /\ [i \in 1 .. 5 |-> results[i].hit] = <<FALSE, FALSE, TRUE, TRUE, TRUE>>
              /\ \E w \in Ways(cfg[1]) :
                    /\ sets[1][0][w].valid /\ sets[1][0][w].tag = 0
                    /\ sets[1][0][w].dirty)

\* n is a power of two
IsPow2(n) == n > 0 /\ Pow2(Ctz(n)) = n

\* C11: configuration error: a Cache whose blockSize or numSets is not a power
\* of two fails at construction, so accessCache never runs on a level with
\* such a geometry.
ConfigurationError ==
    \A l \in Levels :
        ev.lvl = l => IsPow2(cfg[l].blockSize) /\ IsPow2(NumSets(cfg[l]))

\* C12: dirty implies valid: on every level no slot is invalid and dirty at
\* the same time.
DirtyImpliesValid ==
    \A l \in Levels : \A s \in SetIdx(cfg[l]) : \A w \in Ways(cfg[l]) :
        sets[l][s][w].dirty => sets[l][s][w].valid

\* C12 witness: a write found its tag in the victim queue and
\* insertBlockToCache left the line it put into the set dirty, next to a way
\* of that set that is still invalid.
DirtyImpliesValidWitness ==
    /\ ev.kind = "vhit" /\ ev.isWrite
    /\ sets[ev.lvl][ev.idx][ev.way].dirty
    /\ \E w \in Ways(cfg[ev.lvl]) : ~sets[ev.lvl][ev.idx][w].valid

\* C13: replacement-state invariant: every counter is in 0..255; a set never
\* accessed has all counters 0; a set that has been accessed has exactly one
\* counter 0, at the way of its latest updatePseudoLRU; so getPseudoLRU
\* returns a way of the set whose counter is 0, never the index `ways`.
ReplacementState ==
    /\ \A l \in Levels : \A s \in SetIdx(cfg[l]) :
          LET ctrs == pseudoLRU[l][s]
          IN  /\ \A w \in Ways(cfg[l]) : ctrs[w] \in 0 .. CounterMax
              /\ hist[l][s] = <<>> => \A w \in Ways(cfg[l]) : ctrs[w] = 0
              /\ hist[l][s] # <<>> =>
                     Cardinality({w \in Ways(cfg[l]) : ctrs[w] = 0}) = 1
              /\ GetPseudoLRU(cfg[l], ctrs) \in Ways(cfg[l])
              /\ ctrs[GetPseudoLRU(cfg[l], ctrs)] = 0
    /\ ev.kind # "none" => pseudoLRU[ev.lvl][ev.idx][ev.way] = 0

\* C13 witness: a set has been accessed so often that a counter stands at
\* its ceiling, and the latest access was to that set.
ReplacementStateWitness ==
    /\ ev.kind # "none"
    /\ hist[ev.lvl][ev.idx] # <<>>
    /\ \E w \in Ways(cfg[ev.lvl]) : pseudoLRU[ev.lvl][ev.idx][w] = CounterMax

\* the values address & tagMask takes on level l
TagValues(l) ==
    LET unit == Pow2(TagShift(cfg[l]))
    IN  { k * unit : k \in 0 .. ((AddrSpace \div unit) - 1) }

\* C14: victim lookup of an absent tag is a no-op: for the queue of every
\* level and every tag that no entry carries, checkVictimCache(tag) returns
\* false and leaves the queue with the same entries in the same order.
AbsentLookupNoOp ==
    \A l \in Levels : \A t \in TagValues(l) :
        (\A i \in 1 .. Len(victimCache[l]) : victimCache[l][i].tag # t)
            => LET look == CheckVictimCache(victimCache[l], t)
               IN  /\ ~look.found
                   /\ Rotate(victimCache[l], look.rot) = victimCache[l]

\* C14 witness: a miss, whose lookup went through a queue of at least two
\* entries with different tags without finding its tag, and then appended
\* the evicted line without discarding any.
AbsentLookupNoOpWitness ==
    /\ ev.kind = "miss" /\ ev.disc = 0
    /\ Len(victimCache[ev.lvl]) >= 3
    /\ victimCache[ev.lvl][1].tag # victimCache[ev.lvl][2].tag

PrefetchOnEveryPath ==
    ev.kind # "none" =>
        LET nextAddress == (ev.addr + cfg[ev.lvl].blockSize) % AddrSpace
        IN  ~Resident(ev.lvl, nextAddress) => pf = nextAddress


\* C17: tag storage is lossless: the tag a fill writes into the block is the
\* tag a lookup computes from the same address, so right after the line of A
\* was filled, it is found as A's line in A's set, for addresses of any size.
TagLossless ==
    ev.kind = "miss" =>
        /\ sets[ev.lvl][ev.idx][ev.way].tag = TagOf(cfg[ev.lvl], ev.addr)
        /\ Resident(ev.lvl, ev.addr)


\* C18: hit soundness: an accessCache(A) activation resolves as a hit (in the
\* set or in the victim queue) only if an earlier activation of this level was
\* made for the block of A (same set index, same tag); and the victim entry a
\* victim hit puts into A's set was evicted from A's set, not from another set
\* with the same tag value.
HitSoundness ==
    [][\A l \in Levels :
        (ev'.lvl = l /\ ev'.kind \in {"hit", "vhit"}) =>
            LET c    == cfg[l]
                tag  == TagOf(c, ev'.addr)
                look == CheckVictimCache(victimCache[l], tag)
            IN  /\ <<IndexOf(c, ev'.addr), tag>> \in seen[l]
                /\ ev'.kind = "vhit" => Head(Rotate(vcMeta[l], look.rot)).from = ev'.idx
      ]_vars


\* the whole state of the L2 object
L2State == <<sets[2], pseudoLRU[2], victimCache[2]>>

\* C19: an accessMemory call whose L1 access hits leaves L2 (lines, counters,
\* victim queue) as it was: no step of such a call changes L2 or leads into
\* the L2 access, and an accessCache of L2 runs only after the L1 access of
\* the call returned miss (or nested in such an L2 access).
L1HitLeavesL2 ==
    [][mode = "hier" =>
        /\ (pc \in {"idle", "L1"} /\ top') =>
               (pc' \in {"idle", "L1"} /\ L2State' = L2State)
        /\ ev'.lvl = 2 => ((pc = "callL2" /\ ~top) \/ pc = "L2")
      ]_vars

L1HitLeavesL2Witness ==
    /\ mode = "hier" /\ pc = "idle" /\ results # <<>>
    /\ results[Len(results)].hit /\ results[Len(results)].via = "L1"
    /\ ev.lvl = 1 /\ ~ev.user
    /\ \E s \in SetIdx(cfg[2]) : \E w \in Ways(cfg[2]) : sets[2][s][w].valid


\* C20: in every reachable state every entry of the victim queue is valid and
\* clean: a dirty line is written back and marked clean before it is copied
\* into the queue, and nothing sets dirty on a queued entry.
VictimEntriesClean ==
    \A l \in Levels : \A i \in 1 .. Len(victimCache[l]) :
        victimCache[l][i].valid /\ ~victimCache[l][i].dirty

VictimEntriesCleanWitness ==
    /\ ev.kind = "miss" /\ ev.wb = 1 /\ ev.old.valid /\ ev.old.dirty
    /\ victimCache[ev.lvl] # <<>>
    /\ victimCache[ev.lvl][Len(victimCache[ev.lvl])] = [ev.old EXCEPT !.dirty = FALSE]

===========================================================================
